---- MODULE Spec2Model ----
(***************************************************************************)
(* State-machine model of the nlfw recruiter-mail assistant:               *)
(*   - the two MailHandler implementations (MockMailHandler of             *)
(*     test_mail.py, IMAPMailHandler of mail.py),                          *)
(*   - MailClient (get_unread_messages, analyze_email, generate_response,  *)
(*     create_response_draft, process_recruiter_emails),                   *)
(*   - the DatabaseManager store.                                          *)
(* The program is single threaded: a scan (process_recruiter_emails) runs  *)
(* to its end before the caller invokes anything else.                     *)
(***************************************************************************)
EXTENDS Integers, Sequences, FiniteSets, TLC

\* ------------------------------------------------------------------ bounds
NumMsgs == 2
MaxDrafts == 2
MaxParts == 3

\* get_unread_messages(self, limit: int = 10)
DefaultLimit == 10

VARIABLES
    kind,             \* which MailHandler the client was built with
    is_connected,     \* MockMailHandler.is_connected
    inbox_selected,   \* MockMailHandler.inbox_selected
    mail,             \* IMAPMailHandler.mail: "None" or a session object
    imapState,        \* imaplib state of the session held in mail
    folder,           \* mailbox selected in that session
    read,             \* ids marked read (read_messages / \Seen on the server)
    drafts,           \* the draft store (MockMailHandler.drafts / Drafts mailbox)
    db,               \* job_emails table: message_id -> row
    pc,               \* position of process_recruiter_emails
    unread_messages,  \* local of process_recruiter_emails
    idx,              \* loop position of "for msg in unread_messages"
    exc,              \* exception in flight in process_recruiter_emails
    disconnectCalls,  \* calls of mail_handler.disconnect made by the current scan
    verdicts,         \* id -> verdicts returned by analyze_email in the current scan
    scanDrafts,       \* id -> drafts the current scan submitted for it
    scannedBefore,    \* ids fetched by the scans before the current one
    draftedBy,        \* id -> drafts submitted for it by all scans so far
    lifecycle,        \* how the last connect / disconnect of the handler ended
    last              \* the last call made by the caller and how it ended

vars == <<kind, is_connected, inbox_selected, mail, imapState, folder, read,
          drafts, db, pc, unread_messages, idx, exc, disconnectCalls, verdicts,
          scanDrafts, scannedBefore, draftedBy, lifecycle, last>>

scanVars == <<pc, unread_messages, idx, exc, disconnectCalls, verdicts,
              scanDrafts, scannedBefore, draftedBy>>

\* ------------------------------------------------------------- sequences
Min(a, b) == IF a < b THEN a ELSE b
Max(a, b) == IF a > b THEN a ELSE b

RECURSIVE SetToSortedSeq(_)
SetToSortedSeq(S) ==
    IF S = {} THEN <<>>
    ELSE LET m == CHOOSE x \in S : \A y \in S : x <= y
         IN  <<m>> \o SetToSortedSeq(S \ {m})

Range(s) == {s[i] : i \in 1..Len(s)}

\* Python s[:limit]: a negative limit counts from the end.
PySliceOffByOne(s, limit) ==
    SubSeq(s, 1, Min(Len(s), limit + 1))
PySlice(s, limit) ==
    IF limit >= 0 THEN SubSeq(s, 1, Min(Len(s), limit))
    ELSE SubSeq(s, 1, Max(0, Len(s) + limit))

\* ------------------------------------------------------------- messages
\* Strings the code inspects are sequences of characters.
StrRe == <<"R", "e", ":", " ">>
SubjectPool ==
    << <<"J", "o", "b">>,
       <<"R", "E", ":", "J">>,
       <<"R", "e", ":", " ", "J", "o", "b">> >>
\* A message without a From header has the sender "" (util.py line 17).
SenderPool ==
    << <<"J", " ", "<", "j", "@", "x", ">">>,
       <<>>,
       <<" ", "r", "@", "x">> >>

\* MockMailHandler.search_unread: ids are str(i) for i in range(len(test_messages))
MsgIds == 0 .. (NumMsgs - 1)

\* Messages of the Drafts mailbox get ids below the inbox's.
DraftId(k) == 0 - k

DigitPool == <<"0", "1", "2", "3", "4", "5", "6", "7", "8", "9">>

\* parse_email_message: the EmailMessage of inbox message id
ParseEmailMessage(id) ==
    [subject |-> SubjectPool[(id % Len(SubjectPool)) + 1],
     sender |-> SenderPool[(id % Len(SenderPool)) + 1],
     message_id |-> <<"<", "m", DigitPool[(id % Len(DigitPool)) + 1], ">">>]

\* ----------------------------------------------------------- attributes
\* Instance attributes each handler class sets in __init__.
HandlerAttrs ==
    [mock |-> {"test_messages", "is_connected", "inbox_selected",
               "read_messages", "drafts"},
     imap |-> {"email_address", "password", "server", "mail"}]
HasAttr(a) == a \in HandlerAttrs[kind]

\* The fields of the pydantic model the classifier returns.
EmailAnalysisWithFollowup ==
    [is_recruiter : BOOLEAN, mentions_topics : BOOLEAN, is_followup : BOOLEAN]
EmailAnalysis ==
    [is_recruiter : BOOLEAN, mentions_topics : BOOLEAN]

HandlerOps == {"get_inbox", "search_unread", "fetch_message", "mark_as_read",
               "mark_as_unread", "create_draft"}
FolderOps == {"search_unread", "fetch_message", "mark_as_read", "mark_as_unread"}

\* ------------------------------------------------------- handler state
\* The handler and its server as one value, so that a method is a function
\* from the state before the call to [h: the state after, r: how the call
\* ended ("ok" or the exception raised), v: the value returned].
Cur ==
    [c |-> is_connected, s |-> inbox_selected, mail |-> mail, st |-> imapState,
     f |-> folder, read |-> read, drafts |-> drafts]

Ret(h, r, v) == [h |-> h, r |-> r, v |-> v]

Statuses == {"OK", "NO"}

\* --------------------------------------------------- MockMailHandler
\* The checks each method makes before acting.
MockRaisesDraftUnchecked(h, op) ==
    IF op = "create_draft" THEN "ok"
    ELSE IF ~h.c THEN "ConnectionError"
    ELSE IF op \in FolderOps /\ ~h.s THEN "RuntimeError"
    ELSE "ok"
MockRaisesDraftNeedsInbox(h, op) ==
    IF ~h.c THEN "ConnectionError"
    ELSE IF op \in FolderOps \cup {"create_draft"} /\ ~h.s THEN "RuntimeError"
    ELSE "ok"
MockRaises(h, op) ==
    IF ~h.c THEN "ConnectionError"
    ELSE IF op \in FolderOps /\ ~h.s THEN "RuntimeError"
    ELSE "ok"

\* ---------------------------------------------------- IMAPMailHandler
\* imaplib refuses a command its session state does not allow (IMAP4.error).
ImapCommand ==
    [get_inbox |-> "SELECT", search_unread |-> "SEARCH",
     fetch_message |-> "FETCH", mark_as_read |-> "STORE",
     mark_as_unread |-> "STORE", create_draft |-> "SELECT"]
ImapAllowed ==
    [SELECT |-> {"AUTH", "SELECTED"}, SEARCH |-> {"SELECTED"},
     FETCH |-> {"SELECTED"}, STORE |-> {"SELECTED"},
     APPEND |-> {"AUTH", "SELECTED"}, CLOSE |-> {"SELECTED"}]

\* "if not self.mail: raise ConnectionError", then the imaplib call, then
\* "if status != 'OK': raise Exception".
ImapRaises(h, op, status) ==
    IF h.mail = "None" THEN "ConnectionError"
    ELSE IF h.st \notin ImapAllowed[ImapCommand[op]] THEN "IMAP4.error"
    ELSE IF status # "OK" THEN "Exception"
    ELSE "ok"

\* The mailbox the folder-dependent commands act on.
DraftIdsOf(h) == {DraftId(k) : k \in 1..Len(h.drafts)}
Mailbox(h) ==
    IF kind = "mock" \/ h.f = "INBOX" THEN MsgIds ELSE DraftIdsOf(h)

\* ------------------------------------------------ connect / disconnect
ConnectOutcomes == {"ok", "unreachable", "rejected"}

\* IMAP4_SSL(server) raises before self.mail is assigned; login raises
\* after it.
HConnect(h, outcome) ==
    IF kind = "mock" THEN Ret([h EXCEPT !.c = TRUE], "ok", "None")
    ELSE IF outcome = "unreachable" THEN Ret(h, "ConnectionError", "None")
    ELSE IF outcome = "rejected"
         THEN Ret([h EXCEPT !.mail = "IMAP4_SSL", !.st = "NONAUTH", !.f = ""],
                  "ConnectionError", "None")
    ELSE Ret([h EXCEPT !.mail = "IMAP4_SSL", !.st = "AUTH", !.f = ""],
             "ok", "None")

\* IMAP: close() then logout() inside one try with a bare except; self.mail
\* is left as it is. close() is refused unless a mailbox is selected, and
\* the except clause then skips logout().
HDisconnectKeepsSelection(h) ==
    IF kind = "mock" THEN Ret([h EXCEPT !.c = FALSE], "ok", "None")
    ELSE IF h.mail = "None" THEN Ret(h, "ok", "None")
    ELSE IF h.st \in ImapAllowed["CLOSE"]
         THEN Ret([h EXCEPT !.st = "LOGOUT", !.f = ""], "ok", "None")
    ELSE Ret(h, "ok", "None")
HDisconnect(h) ==
    IF kind = "mock" THEN Ret([h EXCEPT !.c = FALSE, !.s = FALSE], "ok", "None")
    ELSE IF h.mail = "None" THEN Ret(h, "ok", "None")
    ELSE IF h.st \in ImapAllowed["CLOSE"]
         THEN Ret([h EXCEPT !.st = "LOGOUT", !.f = ""], "ok", "None")
    ELSE Ret(h, "ok", "None")

\* ------------------------------------------------------ get_inbox
\* imaplib's select leaves the session in AUTH when the server refuses.
HGetInbox(h, status) ==
    IF kind = "mock"
    THEN LET r == MockRaises(h, "get_inbox")
         IN  IF r = "ok" THEN Ret([h EXCEPT !.s = TRUE], "ok", "None")
             ELSE Ret(h, r, "None")
    ELSE LET r == ImapRaises(h, "get_inbox", status)
         IN  IF r = "ok"
             THEN Ret([h EXCEPT !.st = "SELECTED", !.f = "INBOX"], "ok", "None")
             ELSE IF r = "Exception"
                  THEN Ret([h EXCEPT !.st = "AUTH", !.f = ""], r, "None")
             ELSE Ret(h, r, "None")

\* ---------------------------------------------------- search_unread
\* The ids not marked read, in ascending order.
HSearchUnread(h, status) ==
    LET r == IF kind = "mock" THEN MockRaises(h, "search_unread")
             ELSE ImapRaises(h, "search_unread", status)
    IN  IF r = "ok" THEN Ret(h, "ok", SetToSortedSeq(Mailbox(h) \ h.read))
        ELSE Ret(h, r, <<>>)

\* ---------------------------------------------------- fetch_message
\* Fetching marks the message read.
HFetchMessageKeepsUnread(h, id, status) ==
    LET r == IF kind = "mock" THEN MockRaises(h, "fetch_message")
             ELSE ImapRaises(h, "fetch_message", status)
    IN  IF r = "ok" THEN Ret(h, "ok", id)
        ELSE Ret(h, r, "None")
HFetchMessage(h, id, status) ==
    LET r == IF kind = "mock" THEN MockRaises(h, "fetch_message")
             ELSE ImapRaises(h, "fetch_message", status)
    IN  IF r = "ok" THEN Ret([h EXCEPT !.read = @ \cup {id}], "ok", id)
        ELSE Ret(h, r, "None")

\* ------------------------------------------ mark_as_read / mark_as_unread
HMarkAsRead(h, id, status) ==
    LET r == IF kind = "mock" THEN MockRaises(h, "mark_as_read")
             ELSE ImapRaises(h, "mark_as_read", status)
    IN  IF r = "ok" THEN Ret([h EXCEPT !.read = @ \cup {id}], "ok", "None")
        ELSE Ret(h, r, "None")

HMarkAsUnreadClearsAll(h, id, status) ==
    LET r == IF kind = "mock" THEN MockRaises(h, "mark_as_unread")
             ELSE ImapRaises(h, "mark_as_unread", status)
    IN  IF r = "ok" THEN Ret([h EXCEPT !.read = {}], "ok", "None")
        ELSE Ret(h, r, "None")
HMarkAsUnread(h, id, status) ==
    LET r == IF kind = "mock" THEN MockRaises(h, "mark_as_unread")
             ELSE ImapRaises(h, "mark_as_unread", status)
    IN  IF r = "ok" THEN Ret([h EXCEPT !.read = @ \ {id}], "ok", "None")
        ELSE Ret(h, r, "None")

\* -------------------------------------------------------- strings
None == <<"None">>
Whitespace == {" "}

RECURSIVE LStrip(_)
LStrip(s) ==
    IF s # <<>> /\ Head(s) \in Whitespace THEN LStrip(Tail(s)) ELSE s
RECURSIVE RStrip(_)
RStrip(s) ==
    IF s # <<>> /\ s[Len(s)] \in Whitespace
    THEN RStrip(SubSeq(s, 1, Len(s) - 1)) ELSE s
\* str.strip()
Strip(s) == RStrip(LStrip(s))

Upper == [R |-> "r", E |-> "e", J |-> "j", T |-> "t"]
LowerChar(c) == IF c \in DOMAIN Upper THEN Upper[c] ELSE c
\* str.lower()
Lower(s) == [i \in 1..Len(s) |-> LowerChar(s[i])]
\* str.startswith
StartsWith(s, p) == Len(s) >= Len(p) /\ SubSeq(s, 1, Len(p)) = p

\* re.search(r"<(.+?)>", sender): the leftmost "<" that has a ">" at least
\* two places later, up to the nearest such ">".
AngleMatches(s) ==
    {ij \in (1..Len(s)) \X (1..Len(s)) :
        s[ij[1]] = "<" /\ s[ij[2]] = ">" /\ ij[2] >= ij[1] + 2}
ToAddress(s) ==
    IF AngleMatches(s) = {} THEN Strip(s)
    ELSE LET i == CHOOSE a \in {ij[1] : ij \in AngleMatches(s)} :
                      \A b \in {ij[1] : ij \in AngleMatches(s)} : a <= b
             j == CHOOSE a \in {ij[2] : ij \in {x \in AngleMatches(s) : x[1] = i}} :
                      \A b \in {ij[2] : ij \in {x \in AngleMatches(s) : x[1] = i}} : a <= b
         IN  SubSeq(s, i + 1, j - 1)

\* "Re: " is prefixed unless the subject starts with "re:" in any letter case.
ReplySubjectCaseSensitive(subject) ==
    IF StartsWith(subject, <<"R", "e", ":">>) THEN subject
    ELSE StrRe \o subject
ReplySubject(subject) ==
    IF StartsWith(Lower(subject), <<"r", "e", ":">>) THEN subject
    ELSE StrRe \o subject

\* ------------------------------------------------------ create_draft
GmailDrafts == "[Gmail]/Drafts"
GoogleMailDrafts == "[Google Mail]/Drafts"

\* '"[Gmail]/Drafts"' if status == "OK" else '"[Google Mail]/Drafts"'
AppendTarget(status) ==
    IF status = "OK" THEN GmailDrafts ELSE GoogleMailDrafts

\* The try block that selects a Drafts folder and appends the message, and
\* the reselection of the inbox after it. Any exception inside the try
\* block is raised again as Exception("Failed to create draft: ...").
SelectedDrafts(h, sel1, sel2) ==
    IF h.mail = "None" \/ h.st \notin ImapAllowed["SELECT"] THEN ""
    ELSE IF sel1 = "OK" THEN GmailDrafts
    ELSE IF sel2 = "OK" THEN GoogleMailDrafts
    ELSE ""
DraftsAppend(h, d, sel1, sel2, app, resel) ==
    IF h.mail = "None" \/ h.st \notin ImapAllowed["SELECT"]
    THEN Ret(h, "Exception", "None")
    ELSE LET selected == SelectedDrafts(h, sel1, sel2)
             status == IF sel1 = "OK" THEN sel1 ELSE sel2
         IN  IF selected = ""
             THEN Ret([h EXCEPT !.st = "AUTH", !.f = ""], "Exception", "None")
             ELSE IF app # "OK"
                  THEN Ret([h EXCEPT !.st = "SELECTED", !.f = selected],
                           "Exception", "None")
             ELSE HGetInbox(
                      [h EXCEPT !.st = "SELECTED", !.f = selected,
                                !.drafts = Append(@,
                                    [d EXCEPT !.target = AppendTarget(status)])],
                      resel)

\* MailHandler.create_draft of both handlers. The IMAP handler leaves out
\* a header whose value is None or empty.
Header(x) == IF x = None \/ x = <<>> THEN None ELSE x
HCreateDraft(h, d, sel1, sel2, app, resel) ==
    IF kind = "mock"
    THEN LET r == MockRaises(h, "create_draft")
         IN  IF r = "ok" THEN Ret([h EXCEPT !.drafts = Append(@, d)], "ok", "None")
             ELSE Ret(h, r, "None")
    ELSE IF h.mail = "None" THEN Ret(h, "ConnectionError", "None")
    ELSE DraftsAppend(h, [d EXCEPT !.in_reply_to = Header(@),
                                   !.references = Header(@)],
                      sel1, sel2, app, resel)

\* ------------------------------------------------------- MailClient
\* for msg_id in message_ids[:limit]: fetch_message(msg_id)
RECURSIVE FetchAll(_, _, _, _)
FetchAll(h, ids, k, failAt) ==
    IF k > Len(ids) THEN Ret(h, "ok", <<>>)
    ELSE LET f == HFetchMessage(h, ids[k], IF k = failAt THEN "NO" ELSE "OK")
         IN  IF f.r # "ok" THEN Ret(f.h, f.r, <<>>)
             ELSE LET rest == FetchAll(f.h, ids, k + 1, failAt)
                  IN  Ret(rest.h, rest.r, <<ids[k]>> \o rest.v)

\* get_unread_messages: v is the ids fetched, ids the result of search_unread.
GetUnreadMessagesNoInbox(h, limit, st1, st2, failAt) ==
    LET s == HSearchUnread(h, st2)
    IN  IF s.r # "ok"
        THEN [h |-> s.h, r |-> s.r, v |-> <<>>, ids |-> <<>>]
        ELSE LET f == FetchAll(s.h, PySlice(s.v, limit), 1, failAt)
             IN  [h |-> f.h, r |-> f.r, v |-> f.v, ids |-> s.v]
GetUnreadMessages(h, limit, st1, st2, failAt) ==
    LET g == HGetInbox(h, st1)
    IN  IF g.r # "ok" THEN [h |-> g.h, r |-> g.r, v |-> <<>>, ids |-> <<>>]
        ELSE LET s == HSearchUnread(g.h, st2)
             IN  IF s.r # "ok"
                 THEN [h |-> s.h, r |-> s.r, v |-> <<>>, ids |-> <<>>]
                 ELSE LET f == FetchAll(s.h, PySlice(s.v, limit), 1, failAt)
                      IN  [h |-> f.h, r |-> f.r, v |-> f.v, ids |-> s.v]

\* The draft create_response_draft composes for message m.
ResponseDraftNoReferences(m, response) ==
    [to |-> ToAddress(m.sender),
     subject |-> ReplySubject(m.subject),
     body |-> <<response, "byline", "On", "date", m.sender, "wrote:", "quoted">>,
     in_reply_to |-> m.message_id,
     references |-> None,
     target |-> ""]
ResponseDraft(m, response) ==
    [to |-> ToAddress(m.sender),
     subject |-> ReplySubject(m.subject),
     body |-> <<response, "byline", "On", "date", m.sender, "wrote:", "quoted">>,
     in_reply_to |-> m.message_id,
     references |-> m.message_id,
     target |-> ""]

\* create_response_draft reads mail_handler.email_address and then drives
\* mail_handler.mail itself.
CreateResponseDraft(h, m, response, sel1, sel2, app, resel) ==
    IF ~HasAttr("email_address") THEN Ret(h, "AttributeError", "None")
    ELSE DraftsAppend(h, ResponseDraft(m, response), sel1, sel2, app, resel)

\* analyze_email / generate_response: one call of the language-model backend,
\* which answers or fails; neither touches the handler or the store.
ApiOutcomes == {"ok", "APIError"}
ResponseText == "reply"

\* ------------------------------------------------ process_recruiter_emails
\* One pass of the body of "for msg in unread_messages" over message m:
\* [h: handler afterwards, exc: the exception that leaves the loop or
\* "None", drafted: drafts submitted for m].
Step(h, e, n) == [h |-> h, exc |-> e, drafted |-> n]
LoopBody(h, m, analysed, v, generated, sel1, sel2, app, resel) ==
    IF analysed # "ok" THEN Step(h, analysed, 0)
    ELSE IF "is_followup" \notin DOMAIN v THEN Step(h, "AttributeError", 0)
    ELSE IF v.is_followup THEN Step(h, "None", 0)
    ELSE IF v.is_recruiter /\ ~v.mentions_topics
         THEN IF generated # "ok" THEN Step(h, generated, 0)
              ELSE LET c == CreateResponseDraft(h, m, ResponseText,
                                                sel1, sel2, app, resel)
                   IN  IF c.r = "ok" THEN Step(c.h, "None", 1)
                       ELSE Step(c.h, c.r, 0)
    ELSE Step(h, "None", 0)

\* The finally clause runs however the try block was left.
FinallyOnSuccessOnly(e) == e = "None"
FinallyRuns(e) == TRUE

\* ------------------------------------------------------------ state
\* What the servers may answer. The mock handler has no server; for the IMAP
\* server only the answers the code gets to read are told apart.
EnvStatuses == IF kind = "mock" THEN {"OK"} ELSE Statuses
EnvConnect == IF kind = "mock" THEN {"ok"} ELSE ConnectOutcomes
\* <<select INBOX, search, the fetch that fails (0: none)>>
EnvUnread ==
    IF kind = "mock" THEN {<<"OK", "OK", 0>>}
    ELSE {<<"NO", "OK", 0>>, <<"OK", "NO", 0>>}
         \cup {<<"OK", "OK", k>> : k \in 0..NumMsgs}
\* <<select [Gmail]/Drafts, select [Google Mail]/Drafts, append, select INBOX>>
EnvDraft ==
    IF kind = "mock" THEN {<<"OK", "OK", "OK", "OK">>}
    ELSE {<<"OK", "OK", "OK", "OK">>, <<"OK", "OK", "OK", "NO">>,
          <<"OK", "OK", "NO", "OK">>, <<"NO", "OK", "OK", "OK">>,
          <<"NO", "OK", "OK", "NO">>, <<"NO", "OK", "NO", "OK">>,
          <<"NO", "NO", "OK", "OK">>}
\* The limits a caller passes: below, at and above the number of messages.
Limits == (0..NumMsgs) \cup {DefaultLimit}

SetHandler(h) ==
    /\ is_connected' = h.c
    /\ inbox_selected' = h.s
    /\ mail' = h.mail
    /\ imapState' = h.st
    /\ folder' = h.f
    /\ read' = h.read
    /\ drafts' = h.drafts

\* The record of a call: the method, how it ended, its argument, its value.
Call(op, r, arg, v) == [op |-> op, r |-> r, arg |-> arg, v |-> v]

AfterConnect(r) == IF r = "ok" THEN "connected" ELSE "connect_failed"
AfterDisconnect == IF lifecycle = "connected" THEN "disconnected" ELSE lifecycle

Idle == pc \in {"idle", "done"}

\* The ids a caller names are ids of inbox messages, so it fetches and marks
\* only while no Drafts folder is selected.
CallerIds == IF kind = "imap" /\ folder \notin {"", "INBOX"} THEN {} ELSE MsgIds

Init ==
    /\ kind \in {"mock", "imap"}
    /\ is_connected = FALSE
    /\ inbox_selected = FALSE
    /\ mail = "None"
    /\ imapState = "NONAUTH"
    /\ folder = ""
    /\ read = {}
    /\ drafts = <<>>
    /\ db = {}
    /\ pc = "idle"
    /\ unread_messages = <<>>
    /\ idx = 1
    /\ exc = "None"
    /\ disconnectCalls = 0
    /\ verdicts = <<>>
    /\ scanDrafts = <<>>
    /\ scannedBefore = {}
    /\ draftedBy = [i \in MsgIds |-> 0]
    /\ lifecycle = "new"
    /\ last = Call("none", "ok", 0, 0)

\* ------------------------------------------------- calls by the caller
Connect ==
    /\ Idle
    /\ \E outcome \in EnvConnect :
         LET c == HConnect(Cur, outcome)
         IN  /\ SetHandler(c.h)
             /\ lifecycle' = AfterConnect(c.r)
             /\ last' = Call("connect", c.r, 0, 0)
    /\ UNCHANGED <<kind, db, scanVars>>

Disconnect ==
    /\ Idle
    /\ LET c == HDisconnect(Cur)
       IN  /\ SetHandler(c.h)
           /\ lifecycle' = AfterDisconnect
           /\ last' = Call("disconnect", c.r, 0, 0)
    /\ UNCHANGED <<kind, db, scanVars>>

GetInbox ==
    /\ Idle
    /\ \E st \in EnvStatuses :
         LET c == HGetInbox(Cur, st)
         IN  /\ SetHandler(c.h)
             /\ last' = Call("get_inbox", c.r, 0, 0)
    /\ UNCHANGED <<kind, db, scanVars, lifecycle>>

SearchUnread ==
    /\ Idle
    /\ \E st \in EnvStatuses :
         LET c == HSearchUnread(Cur, st)
         IN  /\ SetHandler(c.h)
             /\ last' = Call("search_unread", c.r, 0, c.v)
    /\ UNCHANGED <<kind, db, scanVars, lifecycle>>

FetchMessage ==
    /\ Idle
    /\ \E id \in CallerIds, st \in EnvStatuses :
         LET c == HFetchMessage(Cur, id, st)
         IN  /\ SetHandler(c.h)
             /\ last' = Call("fetch_message", c.r, id, 0)
    /\ UNCHANGED <<kind, db, scanVars, lifecycle>>

MarkAsRead ==
    /\ Idle
    /\ \E id \in CallerIds, st \in EnvStatuses :
         LET c == HMarkAsRead(Cur, id, st)
         IN  /\ SetHandler(c.h)
             /\ last' = Call("mark_as_read", c.r, id, 0)
    /\ UNCHANGED <<kind, db, scanVars, lifecycle>>

MarkAsUnread ==
    /\ Idle
    /\ \E id \in CallerIds, st \in EnvStatuses :
         LET c == HMarkAsUnread(Cur, id, st)
         IN  /\ SetHandler(c.h)
             /\ last' = Call("mark_as_unread", c.r, id, 0)
    /\ UNCHANGED <<kind, db, scanVars, lifecycle>>

\* The drafts a caller submits directly.
CallerDrafts ==
    {[to |-> <<"t", "@", "x">>, subject |-> <<"T">>, body |-> <<"B">>,
      in_reply_to |-> x, references |-> x, target |-> ""] :
        x \in {None, <<"<", "t", ">">>}}

CreateDraft ==
    /\ Idle
    /\ Len(drafts) < MaxDrafts
    /\ \E d \in CallerDrafts, e \in EnvDraft :
         LET c == HCreateDraft(Cur, d, e[1], e[2], e[3], e[4])
         IN  /\ SetHandler(c.h)
             /\ last' = Call("create_draft", c.r, d,
                             IF kind = "imap" THEN SelectedDrafts(Cur, e[1], e[2])
                             ELSE "")
    /\ UNCHANGED <<kind, db, scanVars, lifecycle>>

CallGetUnreadMessages ==
    /\ Idle
    /\ \E limit \in Limits, e \in EnvUnread :
         LET g == GetUnreadMessages(Cur, limit, e[1], e[2], e[3])
         IN  /\ SetHandler(g.h)
             /\ last' = Call("get_unread_messages", g.r, limit,
                             [fetched |-> g.v, ids |-> g.ids])
    /\ UNCHANGED <<kind, db, scanVars, lifecycle>>

CallAnalyzeEmail ==
    /\ Idle
    /\ \E id \in MsgIds, analysed \in ApiOutcomes, v \in EmailAnalysis :
         last' = Call("analyze_email", analysed, id,
                      IF analysed = "ok" THEN {v} ELSE {})
    /\ UNCHANGED <<kind, is_connected, inbox_selected, mail, imapState, folder,
                   read, drafts, db, scanVars, lifecycle>>

CallGenerateResponse ==
    /\ Idle
    /\ \E id \in MsgIds, generated \in ApiOutcomes :
         last' = Call("generate_response", generated, id, 0)
    /\ UNCHANGED <<kind, is_connected, inbox_selected, mail, imapState, folder,
                   read, drafts, db, scanVars, lifecycle>>

CallCreateResponseDraft ==
    /\ Idle
    /\ Len(drafts) < MaxDrafts
    /\ \E id \in MsgIds, e \in EnvDraft :
         LET c == CreateResponseDraft(Cur, ParseEmailMessage(id), ResponseText,
                                      e[1], e[2], e[3], e[4])
         IN  /\ SetHandler(c.h)
             /\ last' = Call("create_response_draft", c.r, id, 0)
    /\ UNCHANGED <<kind, db, scanVars, lifecycle>>

\* ------------------------------------------------------ DatabaseManager
\* A datetime: wall-clock reading (whole units and a fraction), and for an
\* aware datetime its UTC offset.
DateTime(wall, micro, aware, off) ==
    [wall |-> wall, micro |-> micro, aware |-> aware, off |-> off]
Dates ==
    {DateTime(1, 0, TRUE, 0), DateTime(2, 0, TRUE, 2),
     DateTime(2, 5, TRUE, 0), DateTime(3, 0, FALSE, 0)}

Digit(n) == DigitPool[n + 1]
DigitValue(c) == CHOOSE n \in 0..9 : DigitPool[n + 1] = c

\* datetime.isoformat(): the wall clock, the fraction unless it is zero, the
\* offset unless the datetime is naive.
IsoFormatNoFraction(d) ==
    <<Digit(d.wall)>>
    \o (IF d.aware THEN <<"+", Digit(d.off)>> ELSE <<>>)
IsoFormat(d) ==
    <<Digit(d.wall)>>
    \o (IF d.micro # 0 THEN <<".", Digit(d.micro)>> ELSE <<>>)
    \o (IF d.aware THEN <<"+", Digit(d.off)>> ELSE <<>>)

\* datetime.fromisoformat()
FromIsoFormat(t) ==
    LET hasMicro == Len(t) >= 3 /\ t[2] = "."
        rest == IF hasMicro THEN SubSeq(t, 4, Len(t)) ELSE Tail(t)
    IN  DateTime(DigitValue(t[1]),
                 IF hasMicro THEN DigitValue(t[3]) ELSE 0,
                 rest # <<>>,
                 IF rest # <<>> THEN DigitValue(rest[2]) ELSE 0)

\* JSON values: <<"null">>, <<"str", s>>, <<"list", s1, ...>> (of strings);
\* a dict is a function from its string keys to values.
Quote(x) == <<"\"", x, "\"">>
RECURSIVE QuoteAll(_)
QuoteAll(xs) ==
    IF xs = <<>> THEN <<>> ELSE Quote(Head(xs)) \o QuoteAll(Tail(xs))
JsonValue(v) ==
    IF v[1] = "null" THEN <<"null">>
    ELSE IF v[1] = "str" THEN Quote(v[2])
    ELSE <<"[">> \o QuoteAll(Tail(v)) \o <<"]">>
\* json.dumps: the members of the object, key and value encoded
JsonDumps(d) == {<<Quote(k), JsonValue(d[k])>> : k \in DOMAIN d}

RECURSIVE UnquoteAll(_)
UnquoteAll(t) ==
    IF Len(t) < 3 THEN <<>> ELSE <<t[2]>> \o UnquoteAll(SubSeq(t, 4, Len(t)))
ParseJsonValue(t) ==
    IF t = <<"null">> THEN <<"null">>
    ELSE IF t[1] = "[" THEN <<"list">> \o UnquoteAll(SubSeq(t, 2, Len(t) - 1))
    ELSE <<"str", t[2]>>
\* json.loads
JsonLoads(text) ==
    [k \in {m[1][2] : m \in text} |->
        ParseJsonValue((CHOOSE m \in text : m[1][2] = k)[2])]

\* sqlite3 binds True / False as 1 / 0; bool(row[...]) reads them back.
BoolToInt(b) == IF b THEN 1 ELSE 0
IntToBool(n) == n # 0

\* What extract_job_details returns: objects decoded from JSON.
AnalysisPool ==
    << [company_name |-> <<"str", "TechCorp">>,
        technologies |-> <<"list", "Python", "AWS">>,
        application_deadline |-> <<"null">>],
       [company_name |-> <<"str", "Test Corp">>,
        role |-> <<"str", "Engineer">>] >>

\* The verdict-dependent fields of the records a caller stores.
Variants ==
    {[body |-> <<"B", "1">>, analyzed_data |-> AnalysisPool[1],
      is_recruiter |-> TRUE, is_followup |-> FALSE, mentions_topics |-> TRUE],
     [body |-> <<"B", "2">>, analyzed_data |-> AnalysisPool[2],
      is_recruiter |-> TRUE, is_followup |-> TRUE, mentions_topics |-> FALSE],
     [body |-> <<>>, analyzed_data |-> AnalysisPool[2],
      is_recruiter |-> FALSE, is_followup |-> FALSE, mentions_topics |-> FALSE]}

\* The dataclass JobEmailData, for message m.
JobEmailData(m, received_date, x) ==
    [message_id |-> m.message_id, sender |-> m.sender, subject |-> m.subject,
     body |-> x.body, received_date |-> received_date,
     analyzed_data |-> x.analyzed_data, is_recruiter |-> x.is_recruiter,
     is_followup |-> x.is_followup, mentions_topics |-> x.mentions_topics]

Records ==
    {JobEmailData(ParseEmailMessage(id), d, x) :
        id \in MsgIds, d \in Dates, x \in Variants}

\* The parameters store_email binds: the row of job_emails.
SqlRow(r) ==
    [message_id |-> r.message_id, sender |-> r.sender, subject |-> r.subject,
     body |-> r.body, received_date |-> IsoFormat(r.received_date),
     analyzed_data |-> JsonDumps(r.analyzed_data),
     is_recruiter |-> BoolToInt(r.is_recruiter),
     is_followup |-> BoolToInt(r.is_followup),
     mentions_topics |-> BoolToInt(r.mentions_topics)]

\* The JobEmailData get_email and get_all_recruiter_emails build from a row.
FromRow(row) ==
    [message_id |-> row.message_id, sender |-> row.sender,
     subject |-> row.subject, body |-> row.body,
     received_date |-> FromIsoFormat(row.received_date),
     analyzed_data |-> JsonLoads(row.analyzed_data),
     is_recruiter |-> IntToBool(row.is_recruiter),
     is_followup |-> IntToBool(row.is_followup),
     mentions_topics |-> IntToBool(row.mentions_topics)]

\* INSERT OR REPLACE on the primary key message_id
UpsertInsertOnly(table, row) ==
    table \cup {row}
Upsert(table, row) ==
    {x \in table : x.message_id # row.message_id} \cup {row}

\* SELECT * FROM job_emails WHERE message_id = ?
GetEmail(table, message_id) == {x \in table : x.message_id = message_id}

\* SQLite compares TEXT bytewise (the BINARY collation).
CharCode(c) ==
    IF c = "+" THEN 43 ELSE IF c = "." THEN 46 ELSE 48 + DigitValue(c)
RECURSIVE TextLess(_, _)
TextLess(a, b) ==
    IF b = <<>> THEN FALSE
    ELSE IF a = <<>> THEN TRUE
    ELSE IF Head(a) # Head(b) THEN CharCode(Head(a)) < CharCode(Head(b))
    ELSE TextLess(Tail(a), Tail(b))

\* The sequences of the rows of S, each once.
RECURSIVE Orderings(_)
Orderings(S) ==
    IF S = {} THEN {<<>>}
    ELSE UNION {{<<x>> \o t : t \in Orderings(S \ {x})} : x \in S}

\* SELECT * FROM job_emails WHERE is_recruiter = 1 ORDER BY received_date
\* DESC: rows with equal received_date come in any order.
RecruiterRows(table) ==
    {q \in Orderings({x \in table : x.is_recruiter = 1}) :
        \A i, j \in 1..Len(q) :
            i < j => ~TextLess(q[i].received_date, q[j].received_date)}

\* [FromRow(row) for row in cursor.fetchall()]
RECURSIVE FromRows(_)
FromRows(q) ==
    IF q = <<>> THEN <<>> ELSE <<FromRow(Head(q))>> \o FromRows(Tail(q))

\* The message ids a caller looks up: those of the messages and one more.
LookupIds == 0 .. NumMsgs

StoreEmail ==
    /\ Idle
    /\ \E r \in Records :
         /\ db' = Upsert(db, SqlRow(r))
         /\ last' = Call("store_email", "ok", r, {})
    /\ UNCHANGED <<kind, is_connected, inbox_selected, mail, imapState, folder,
                   read, drafts, scanVars, lifecycle>>

\* The value returned is {} for None and {record} for a record.
CallGetEmail ==
    /\ Idle
    /\ \E id \in LookupIds :
         LET message_id == ParseEmailMessage(id).message_id
             rows == GetEmail(db, message_id)
         IN  last' = Call("get_email", "ok", message_id,
                          IF rows = {} THEN {}
                          ELSE {FromRow(CHOOSE row \in rows : TRUE)})
    /\ UNCHANGED <<kind, is_connected, inbox_selected, mail, imapState, folder,
                   read, drafts, db, scanVars, lifecycle>>

CallGetAllRecruiterEmails ==
    /\ Idle
    /\ \E q \in RecruiterRows(db) :
         last' = Call("get_all_recruiter_emails", "ok", 0, FromRows(q))
    /\ UNCHANGED <<kind, is_connected, inbox_selected, mail, imapState, folder,
                   read, drafts, db, scanVars, lifecycle>>

\* -------------------------------------------------- clean_email_content
\* A text is a sequence of lexemes: the literals the patterns of
\* clean_email_content look for, and one lexeme for each class of character
\* they tell apart ("a": a word, "#": a character outside the URL class).
Lexemes ==
    {"a", " ", "\n", "#", "<", ">", "http", "://", "CONFIDENTIAL",
     "DISCLAIMER", "On", "wrote:"}
\* \s
ReSpace == {" ", "\n"}
\* [a-zA-Z] | [0-9] | [$-_@.&+] | [!*\(\),] | %XX : the range $-_ holds
\* "<", ">", ":" and "/"
UrlClass == Lexemes \ {" ", "\n", "#"}

\* The texts handed to clean_email_content: up to MaxParts phrases.
Phrases ==
    {<<"a">>, <<" ">>, <<"\n">>, <<"<">>, <<">">>, <<"<", "a", ">">>,
     <<"http", "://", "a">>, <<"#", "http">>, <<"CONFIDENTIAL">>,
     <<"DISCLAIMER">>, <<"On">>, <<"wrote:">>}
RECURSIVE TextsOf(_)
TextsOf(n) ==
    IF n = 0 THEN {<<>>}
    ELSE TextsOf(n - 1) \cup {t \o ph : t \in TextsOf(n - 1), ph \in Phrases}
Texts == TextsOf(MaxParts)

\* The end of the longest run of lexemes of class C that starts at s[i]
\* (i - 1 when s[i] is not in C).
RECURSIVE RunEnd(_, _, _)
RunEnd(s, i, C) ==
    IF i <= Len(s) /\ s[i] \in C THEN RunEnd(s, i + 1, C) ELSE i - 1

From(s, i) == SubSeq(s, i, Len(s))

\* re.sub(r"\n\s*\n", "\n", content)
RECURSIVE CollapseBlankLines(_)
CollapseBlankLines(s) ==
    IF s = <<>> THEN <<>>
    ELSE LET e == RunEnd(s, 2, ReSpace)
             nl == {j \in 2..e : s[j] = "\n"}
         IN  IF s[1] = "\n" /\ nl # {}
             THEN LET j == CHOOSE x \in nl : \A y \in nl : y <= x
                  IN  <<"\n">> \o CollapseBlankLines(From(s, j + 1))
             ELSE <<s[1]>> \o CollapseBlankLines(Tail(s))

\* re.sub(r"http[s]?://(?:...)+", "", content)
RECURSIVE RemoveUrls(_)
RemoveUrls(s) ==
    IF s = <<>> THEN <<>>
    ELSE IF /\ Len(s) >= 3
            /\ s[1] = "http"
            /\ s[2] = "://"
            /\ s[3] \in UrlClass
         THEN RemoveUrls(From(s, RunEnd(s, 3, UrlClass) + 1))
         ELSE <<s[1]>> \o RemoveUrls(Tail(s))

\* re.sub(r"<[^>]+>", "", content)
RECURSIVE RemoveTags(_)
RemoveTags(s) ==
    IF s = <<>> THEN <<>>
    ELSE LET e == RunEnd(s, 2, Lexemes \ {">"})
         IN  IF s[1] = "<" /\ e >= 2 /\ e < Len(s)
             THEN RemoveTags(From(s, e + 2))
             ELSE <<s[1]>> \o RemoveTags(Tail(s))

\* The cut of a pattern that ends in [\s\S]*$: everything from the leftmost
\* place where it matches.
CutAt(s, starts) ==
    IF starts = {} THEN s
    ELSE SubSeq(s, 1, (CHOOSE i \in starts : \A j \in starts : i <= j) - 1)

\* re.sub(marker + r"[^\n]*\n[\s\S]*$", "", content, flags=re.IGNORECASE)
CutDisclaimer(s, marker) ==
    CutAt(s, {i \in 1..Len(s) :
                 s[i] = marker /\ \E j \in (i + 1)..Len(s) : s[j] = "\n"})

\* re.sub(r"On.*wrote:[\s\S]*$", "", content)
CutQuoted(s) ==
    CutAt(s, {i \in 1..Len(s) :
                 /\ s[i] = "On"
                 /\ \E j \in (i + 1)..Len(s) :
                        /\ s[j] = "wrote:"
                        /\ \A k \in (i + 1)..(j - 1) : s[k] # "\n"})

\* re.sub(r"From:.*Sent:.*To:.*Subject:[\s\S]*$", "", content)
CutForwarded(s) ==
    CutAt(s, {i \in 1..Len(s) :
                 /\ s[i] = "From:"
                 /\ \E j, k, l \in (i + 1)..Len(s) :
                        /\ j < k /\ k < l
                        /\ s[j] = "Sent:" /\ s[k] = "To:" /\ s[l] = "Subject:"
                        /\ \A m \in (i + 1)..(l - 1) : s[m] # "\n"})

\* re.sub(r"\s+", " ", content)
RECURSIVE CollapseWhitespace(_)
CollapseWhitespace(s) ==
    IF s = <<>> THEN <<>>
    ELSE IF s[1] \in ReSpace
         THEN <<" ">> \o CollapseWhitespace(From(s, RunEnd(s, 1, ReSpace) + 1))
         ELSE <<s[1]>> \o CollapseWhitespace(Tail(s))

\* clean_email_content: the substitutions in the order of the code; after
\* the collapse the text has no newline left, so "^\s+|\s+$" and strip() trim
\* its two ends.
CleanEmailContent(content) ==
    Strip(CollapseWhitespace(CutForwarded(CutQuoted(
        CutDisclaimer(CutDisclaimer(
            RemoveTags(RemoveUrls(CollapseBlankLines(content))),
            "CONFIDENTIAL"), "DISCLAIMER")))))

\* ------------------------------------------- process_recruiter_emails
\* try: self.connect()
ScanConnect ==
    /\ Idle
    /\ \E outcome \in EnvConnect :
         LET c == HConnect(Cur, outcome)
         IN  /\ SetHandler(c.h)
             /\ lifecycle' = AfterConnect(c.r)
             /\ exc' = IF c.r = "ok" THEN "None" ELSE c.r
             /\ pc' = IF c.r = "ok" THEN "get_unread" ELSE "finally"
    /\ unread_messages' = <<>>
    /\ idx' = 1
    /\ disconnectCalls' = 0
    /\ verdicts' = <<>>
    /\ scanDrafts' = <<>>
    /\ scannedBefore' = scannedBefore \cup Range(unread_messages)
    /\ UNCHANGED <<kind, db, draftedBy, last>>

\* unread_messages = self.get_unread_messages()
ScanGetUnread ==
    /\ pc = "get_unread"
    /\ \E e \in EnvUnread :
         LET g == GetUnreadMessages(Cur, DefaultLimit, e[1], e[2], e[3])
         IN  /\ SetHandler(g.h)
             /\ exc' = IF g.r = "ok" THEN "None" ELSE g.r
             /\ unread_messages' = IF g.r = "ok" THEN g.v ELSE <<>>
             /\ scanDrafts' = IF g.r = "ok" THEN [i \in 1..Len(g.v) |-> 0] ELSE <<>>
             /\ pc' = IF g.r = "ok" /\ g.v # <<>> THEN "loop" ELSE "finally"
    /\ UNCHANGED <<kind, db, idx, disconnectCalls, verdicts, scannedBefore,
                   draftedBy, lifecycle, last>>

\* for msg in unread_messages: one message
ScanMessage ==
    /\ pc = "loop"
    /\ \E analysed, generated \in ApiOutcomes, v \in EmailAnalysis,
          e \in EnvDraft :
         LET id == unread_messages[idx]
             b == LoopBody(Cur, ParseEmailMessage(id), analysed, v, generated,
                           e[1], e[2], e[3], e[4])
         IN  /\ Len(b.h.drafts) <= MaxDrafts
             /\ SetHandler(b.h)
             /\ verdicts' = IF analysed = "ok" THEN Append(verdicts, v)
                            ELSE verdicts
             /\ scanDrafts' = [scanDrafts EXCEPT ![idx] = @ + b.drafted]
             /\ draftedBy' = [draftedBy EXCEPT ![id] = @ + b.drafted]
             /\ exc' = b.exc
             /\ idx' = IF b.exc = "None" THEN idx + 1 ELSE idx
             /\ pc' = IF b.exc = "None" /\ idx < Len(unread_messages)
                      THEN "loop" ELSE "finally"
    /\ UNCHANGED <<kind, db, unread_messages, disconnectCalls, scannedBefore,
                   lifecycle, last>>

\* finally: self.disconnect()
ScanFinally ==
    /\ pc = "finally"
    /\ LET c == IF FinallyRuns(exc) THEN HDisconnect(Cur) ELSE Ret(Cur, "ok", "None")
       IN  /\ SetHandler(c.h)
           /\ disconnectCalls' = disconnectCalls + (IF FinallyRuns(exc) THEN 1 ELSE 0)
           /\ lifecycle' = IF FinallyRuns(exc) THEN AfterDisconnect ELSE lifecycle
    /\ pc' = "done"
    /\ UNCHANGED <<kind, db, unread_messages, idx, exc, verdicts, scanDrafts,
                   scannedBefore, draftedBy, last>>

\* What is selected ahead of the call of create_draft is recorded as the
\* value of the call: the Drafts folder the handler got selected, or "".
\* The caller drives the handler, one method at a time.
NextCalls ==
    \/ Connect
    \/ Disconnect
    \/ GetInbox
    \/ SearchUnread
    \/ FetchMessage
    \/ MarkAsRead
    \/ MarkAsUnread
    \/ CreateDraft

SpecCalls == Init /\ [][NextCalls]_vars

\* The caller drives the client, one method at a time.
NextClient ==
    \/ Connect
    \/ Disconnect
    \/ GetInbox
    \/ MarkAsUnread
    \/ CallGetUnreadMessages
    \/ CallAnalyzeEmail
    \/ CallGenerateResponse
    \/ CallCreateResponseDraft

SpecClient == Init /\ [][NextClient]_vars

\* Scans, and between them the calls that make messages unread again.
Next ==
    \/ ScanConnect
    \/ ScanGetUnread
    \/ ScanMessage
    \/ ScanFinally
    \/ Connect
    \/ GetInbox
    \/ MarkAsUnread

Spec == Init /\ [][Next]_vars

\* --------------------------------------------------- parse_email_message
\* What parse_email_message looks at in a raw message: which headers it
\* has, how its subject and body are encoded, whether it is multipart.
RawMessages ==
    [subject : {"absent", "ascii", "utf-8", "iso-8859-1"},
     from : {"absent", "present"},
     message_id : {"absent", "present"},
     date : {"absent", "rfc2822", "garbage"},
     multipart : BOOLEAN,
     body : {"utf-8", "iso-8859-1"}]

\* A field of the result is "" (empty), "text" (decoded), "raw" (the
\* payload as get_payload() hands it over, not decoded as UTF-8).
\* subject.decode() of an encoded word that is not UTF-8 is outside any try.
ParseRaw(msg) ==
    IF msg.subject = "iso-8859-1" THEN [r |-> "UnicodeDecodeError", v |-> {}]
    ELSE [r |-> "ok",
          v |-> {[subject |-> IF msg.subject = "absent" THEN "" ELSE "text",
                  sender |-> IF msg.from = "absent" THEN "" ELSE "text",
                  date |-> IF msg.date = "rfc2822" THEN "parsed" ELSE "now",
                  body |-> IF msg.body = "utf-8" THEN "text"
                           ELSE IF msg.multipart THEN "" ELSE "raw",
                  message_id |-> IF msg.message_id = "absent" THEN ""
                                 ELSE "text"]}]

CallParseEmailMessage ==
    /\ Idle
    /\ \E msg \in RawMessages :
         LET c == ParseRaw(msg)
         IN  last' = Call("parse_email_message", c.r, msg, c.v)
    /\ UNCHANGED <<kind, is_connected, inbox_selected, mail, imapState, folder,
                   read, drafts, db, scanVars, lifecycle>>

NextParse ==
    \/ CallParseEmailMessage

SpecParse == Init /\ [][NextParse]_vars

\* The caller cleans a text, and cleans what it got once more.
InitText ==
    /\ kind \in {"mock", "imap"}
    /\ is_connected = FALSE
    /\ inbox_selected = FALSE
    /\ mail = "None"
    /\ imapState = "NONAUTH"
    /\ folder = ""
    /\ read = {}
    /\ drafts = <<>>
    /\ db = {}
    /\ pc = "idle"
    /\ unread_messages = <<>>
    /\ idx = 1
    /\ exc = "None"
    /\ disconnectCalls = 0
    /\ verdicts = <<>>
    /\ scanDrafts = <<>>
    /\ scannedBefore = {}
    /\ draftedBy = [i \in MsgIds |-> 0]
    /\ lifecycle = "new"
    /\ \E content \in Texts : last = Call("text", "ok", content, content)

CallCleanEmailContent ==
    /\ Idle
    /\ last.op \in {"text", "clean_email_content"}
    /\ last' = Call("clean_email_content", "ok", last.v, CleanEmailContent(last.v))
    /\ UNCHANGED <<kind, is_connected, inbox_selected, mail, imapState, folder,
                   read, drafts, db, scanVars, lifecycle>>

NextText ==
    \/ CallCleanEmailContent

SpecText == InitText /\ [][NextText]_vars

\* The caller drives the store, one method at a time.
NextDb ==
    \/ StoreEmail
    \/ CallGetEmail
    \/ CallGetAllRecruiterEmails

SpecDb == Init /\ [][NextDb]_vars

\* =================================================================== claims
\* What a verdict says about the branch of process_recruiter_emails.
Followup(v) == "is_followup" \in DOMAIN v /\ v.is_followup
Qualifies(v) == ~Followup(v) /\ v.is_recruiter /\ ~v.mentions_topics
MessageIdOf(id) == ParseEmailMessage(id).message_id

\* C1: when a scan has ended, each message it classified has exactly one
\* draft submitted for it if its verdict is recruiter, off topic and not a
\* follow-up, and none otherwise.
C1_OneDraftIffQualifies ==
    pc = "done" =>
        \A i \in 1..Len(verdicts) :
            scanDrafts[i] = (IF Qualifies(verdicts[i]) THEN 1 ELSE 0)

\* C2: a scan calls the handler's disconnect exactly once, however it ends,
\* and not before its try block is left.
C2_DisconnectExactlyOnce ==
    /\ pc = "done" => disconnectCalls = 1
    /\ pc \in {"get_unread", "loop", "finally"} => disconnectCalls = 0
C2_Witness ==
    /\ pc = "done"
    /\ exc = "APIError"
    /\ Len(unread_messages) > 1
    /\ disconnectCalls = 1

C4_LaterMessagesAttempted ==
    pc = "done" /\ exc = "APIError" => idx = Len(unread_messages)

\* C5: every verdict a classification returns carries is_recruiter,
\* mentions_topics and is_followup, and the scan's read of is_followup
\* never fails.
C5_VerdictHasFollowup ==
    /\ \A i \in 1..Len(verdicts) :
         {"is_recruiter", "mentions_topics", "is_followup"} \subseteq DOMAIN verdicts[i]
    /\ exc # "AttributeError"

\* C6: when a scan has ended, each message it classified as not a follow-up
\* has an audit record under its message id, with is_recruiter set when the
\* verdict says recruiter.
C6_AuditRecordKept ==
    pc = "done" =>
        \A i \in 1..Len(verdicts) :
            ~Followup(verdicts[i]) =>
                \E row \in GetEmail(db, MessageIdOf(unread_messages[i])) :
                    FromRow(row).is_recruiter = verdicts[i].is_recruiter

C8_ResponseDraftStored ==
    kind = "mock" /\ is_connected /\ last.op = "create_response_draft" =>
        /\ last.r = "ok"
        /\ drafts # <<>>
        /\ LET d == drafts[Len(drafts)]
           IN  /\ StartsWith(d.subject, <<"R", "e", ":">>)
               /\ d.in_reply_to = MessageIdOf(last.arg)
               /\ d.references = MessageIdOf(last.arg)
               /\ "wrote:" \in Range(d.body)

\* C9: a method of the in-memory handler other than connect and disconnect
\* raises ConnectionError exactly when the handler is disconnected.
C9_MockConnectionState ==
    kind = "mock" /\ last.op \in HandlerOps =>
        (last.r = "ConnectionError" <=> ~is_connected)
C9_Witness ==
    /\ kind = "mock"
    /\ lifecycle = "disconnected"
    /\ read # {}
    /\ drafts # <<>>
    /\ last.op = "create_draft"
    /\ last.r = "ConnectionError"

\* C10: once the IMAP handler has been connected and then disconnected,
\* each method other than connect and disconnect raises ConnectionError.
C10_ImapDisconnectedRaises ==
    kind = "imap" /\ lifecycle = "disconnected" /\ last.op \in HandlerOps =>
        last.r = "ConnectionError"

\* C11: on the in-memory handler, connected with the inbox not selected,
\* search_unread, fetch_message, mark_as_read and mark_as_unread raise
\* RuntimeError ("Inbox not selected") and change nothing of the handler;
\* disconnect clears the selection and connect does not set it, so the four
\* fail again after a reconnect until get_inbox is called.
C11_InboxNotSelected ==
    [][kind = "mock" =>
          /\ (last'.op \in FolderOps /\ is_connected /\ ~inbox_selected) =>
                 /\ last'.r = "RuntimeError"
                 /\ UNCHANGED <<is_connected, inbox_selected, read, drafts>>
          /\ last'.op = "disconnect" => ~inbox_selected'
          /\ last'.op = "connect" => inbox_selected' = inbox_selected
          /\ (last'.op \in FolderOps /\ last'.r = "ok") => inbox_selected]_vars
C11_Witness ==
    /\ kind = "mock"
    /\ is_connected
    /\ ~inbox_selected
    /\ read # {}
    /\ last.op \in FolderOps
    /\ last.r = "RuntimeError"

\* C12: create_draft on the in-memory handler, when connected (the inbox
\* selected or not), returns having appended exactly the draft it was given
\* and leaves the earlier drafts and the read set as they were; when
\* disconnected it raises ConnectionError and leaves the drafts as they were.
C12_MockCreateDraft ==
    [][kind = "mock" /\ last'.op = "create_draft" =>
          IF is_connected
          THEN /\ last'.r = "ok"
               /\ drafts' = Append(drafts, last'.arg)
               /\ read' = read
          ELSE /\ last'.r = "ConnectionError"
               /\ drafts' = drafts]_vars
C12_Witness ==
    /\ kind = "mock"
    /\ is_connected
    /\ ~inbox_selected
    /\ last.op = "create_draft"
    /\ last.r = "ok"
    /\ Len(drafts) = 2
    /\ drafts[2] = last.arg
    /\ drafts[1] # drafts[2]

\* C13: get_unread_messages finds exactly the ids not marked read, in
\* ascending order, and every id it fetches becomes read; when one call has
\* fetched every unread id, the next call, with no mark_as_unread between
\* the two, returns no message and every id is in the read set.
C13_FetchedAreRead ==
    [][last'.op = "get_unread_messages" /\ last'.r = "ok" =>
          /\ last'.v.ids = SetToSortedSeq(MsgIds \ read)
          /\ read' = read \cup Range(last'.v.fetched)
          /\ (/\ last.op = "get_unread_messages"
              /\ last.r = "ok"
              /\ last.v.fetched = last.v.ids) =>
                 /\ last'.v.fetched = <<>>
                 /\ Range(last.v.ids) \subseteq read'
                 /\ read' = MsgIds]_vars
C13_Witness ==
    /\ last.op = "get_unread_messages"
    /\ last.r = "ok"
    /\ last.arg >= NumMsgs
    /\ last.v.ids = <<>>
    /\ last.v.fetched = <<>>
    /\ read = MsgIds

\* C14: mark_as_unread(id) that returns leaves id out of the read set and
\* every other id as it was, changes nothing when id was unread already,
\* and the next search_unread returns id.
C14_MarkAsUnreadUndoes ==
    [][/\ (last'.op = "mark_as_unread" /\ last'.r = "ok") =>
             /\ read' = read \ {last'.arg}
             /\ last'.arg \notin read =>
                    UNCHANGED <<is_connected, inbox_selected, mail, imapState,
                                folder, read, drafts>>
       /\ (/\ last.op = "mark_as_unread"
           /\ last.r = "ok"
           /\ last'.op = "search_unread"
           /\ last'.r = "ok") => last.arg \in Range(last'.v)]_vars
C14_Witness ==
    /\ last.op = "mark_as_unread"
    /\ last.r = "ok"
    /\ drafts # <<>>
    /\ read = MsgIds \ {last.arg}

\* The draft a call of create_response_draft has just added to the store.
ComposedNow ==
    /\ last'.op = "create_response_draft"
    /\ Len(drafts') = Len(drafts) + 1
    /\ SubSeq(drafts', 1, Len(drafts)) = drafts

\* C15: a draft composed for a message carries the message's identifier,
\* unchanged, as both its In-Reply-To and its References value, and composing
\* changes the draft store in no other way than by adding that draft.
C15_ThreadingHeaders ==
    [][last'.op = "create_response_draft" /\ drafts' # drafts =>
          /\ ComposedNow
          /\ drafts'[Len(drafts')].in_reply_to = MessageIdOf(last'.arg)
          /\ drafts'[Len(drafts')].references = MessageIdOf(last'.arg)]_vars
C15_Witness ==
    /\ last.op = "create_response_draft"
    /\ last.r = "ok"
    /\ Len(drafts) = 2
    /\ drafts[1].references # drafts[2].references
    /\ drafts[2].references = MessageIdOf(last.arg)

\* A subject that starts with "re:" in some letter case.
HasRePrefix(subject) ==
    /\ Len(subject) >= 3
    /\ subject[1] \in {"r", "R"}
    /\ subject[2] \in {"e", "E"}
    /\ subject[3] = ":"

\* C16: the subject of a composed draft is the original subject when that
\* starts with "re:" in any letter case, and "Re: " followed by the original
\* subject otherwise.
C16_ReplySubject ==
    [][ComposedNow =>
          LET subject == ParseEmailMessage(last'.arg).subject
          IN  drafts'[Len(drafts')].subject =
                  (IF HasRePrefix(subject) THEN subject
                   ELSE <<"R", "e", ":", " ">> \o subject)]_vars
C16_Witness ==
    /\ last.op = "create_response_draft"
    /\ last.r = "ok"
    /\ Len(drafts) = 2
    /\ drafts[1].subject = <<"R", "e", ":", " ", "J", "o", "b">>
    /\ drafts[2].subject = <<"R", "E", ":", "J">>

\* C17: composing a draft for a message without a recipient (no bracketed
\* address and a sender that is empty once trimmed) does not return normally
\* (it fails with CompositionError) and submits nothing: no stored draft has
\* an empty recipient.
C17_NoEmptyRecipient ==
    /\ \A i \in 1..Len(drafts) : drafts[i].to # <<>>
    /\ (last.op = "create_response_draft" /\ last.r = "ok") =>
           ToAddress(ParseEmailMessage(last.arg).sender) # <<>>

\* C18: the store holds at most one row per message_id; store_email of a
\* record leaves exactly that record under its message_id, adds a row only
\* when the message_id was absent, leaves the rows of the other identifiers
\* as they were, and a get_email of that message_id right after it returns
\* the record just stored.
C18_UpsertReplaces ==
    /\ [](\A x, y \in db : x.message_id = y.message_id => x = y)
    /\ [][/\ last'.op = "store_email" =>
               LET key == last'.arg.message_id
               IN  /\ GetEmail(db', key) = {SqlRow(last'.arg)}
                   /\ db' \ GetEmail(db', key) = db \ GetEmail(db, key)
                   /\ Cardinality(db') = Cardinality(db)
                          + (IF GetEmail(db, key) = {} THEN 1 ELSE 0)
          /\ (/\ last.op = "store_email"
              /\ last'.op = "get_email"
              /\ last'.arg = last.arg.message_id) =>
                 /\ last'.v # {}
                 /\ \A r \in last'.v :
                        \A f \in {"sender", "subject", "body", "is_recruiter",
                                  "is_followup", "mentions_topics"} :
                            r[f] = last.arg[f]]_vars
C18_Witness ==
    /\ last.op = "get_email"
    /\ Cardinality(db) = NumMsgs
    /\ \E r \in last.v : r.body = <<>> /\ ~r.is_recruiter
    /\ \E x \in db : x.message_id # last.arg /\ x.is_recruiter = 1

\* C19: get_email of a message_id under which nothing was stored returns
\* None; get_email of the message_id of a stored record returns a record
\* equal in all nine fields to the one stored last under it.
C19_StoreGetRoundTrip ==
    /\ [](last.op = "get_email" =>
             IF GetEmail(db, last.arg) = {} THEN last.v = {}
             ELSE /\ Cardinality(last.v) = 1
                  /\ GetEmail(db, last.arg) = {SqlRow(r) : r \in last.v})
    /\ [][(/\ last.op = "store_email"
           /\ last'.op = "get_email"
           /\ last'.arg = last.arg.message_id) => last'.v = {last.arg}]_vars
C19_Witness ==
    /\ last.op = "get_email"
    /\ \E r \in last.v :
          /\ r.received_date = DateTime(2, 5, TRUE, 0)
          /\ r.analyzed_data = AnalysisPool[1]
          /\ r.is_recruiter
          /\ ~r.is_followup
          /\ r.mentions_topics

\* The instant of an aware datetime; a naive one is compared by wall clock.
Instant(d) == (d.wall - d.off) * 10 + d.micro
ReceivedLater(a, b) == a.aware = b.aware /\ Instant(a) > Instant(b)

\* C20: get_all_recruiter_emails returns the stored records with is_recruiter
\* set, each once, and no others, in an order where a record received later
\* never comes after one received earlier.
C20_RecruitersNewestFirst ==
    last.op = "get_all_recruiter_emails" =>
        /\ Range(last.v) = {FromRow(x) : x \in {y \in db : y.is_recruiter = 1}}
        /\ Len(last.v) = Cardinality({y \in db : y.is_recruiter = 1})
        /\ \A i \in 1..Len(last.v) : last.v[i].is_recruiter
        /\ \A i, j \in 1..Len(last.v) :
               i < j => ~ReceivedLater(last.v[j].received_date,
                                       last.v[i].received_date)

Has(s, x) == \E i \in 1..Len(s) : s[i] = x
HasUrl(s) ==
    \E i \in 1..(Len(s) - 2) : s[i] = "http" /\ s[i + 1] = "://" /\ s[i + 2] = "a"
Count(s, x) == Cardinality({i \in 1..Len(s) : s[i] = x})

\* C21: cleaning a cleaned text changes nothing:
\* clean_email_content(clean_email_content(x)) = clean_email_content(x).
C21_CleanIdempotent ==
    [][last.op = "clean_email_content" /\ last'.op = "clean_email_content" =>
          last'.arg = last.v /\ last'.v = last.v]_vars

\* C22: the cleaned form of a text that holds a disclaimer marker holds no
\* marker, and is the cleaned form of the part before the first marker, also
\* when the line of the marker is the last line.
C22_DisclaimerCut ==
    last.op = "clean_email_content" =>
        LET at == {i \in 1..Len(last.arg) :
                      last.arg[i] \in {"CONFIDENTIAL", "DISCLAIMER"}}
        IN  at # {} =>
                /\ ~Has(last.v, "CONFIDENTIAL")
                /\ ~Has(last.v, "DISCLAIMER")
                /\ last.v = CleanEmailContent(
                       SubSeq(last.arg, 1,
                              (CHOOSE i \in at : \A j \in at : i <= j) - 1))

\* C23: the cleaned form of a text that holds a URL has no "http" in it and
\* no tag left, and keeps the words that stand between two tags (in a text
\* without disclaimer or quoted-reply markers).
C23_NoUrlNoTags ==
    last.op = "clean_email_content" /\ HasUrl(last.arg) =>
        /\ ~Has(last.v, "http")
        /\ RemoveTags(last.v) = last.v
        /\ (\A x \in {"CONFIDENTIAL", "DISCLAIMER", "On"} : ~Has(last.arg, x)) =>
               Count(last.v, "a") >=
                   Cardinality({i \in 2..(Len(last.arg) - 1) :
                                   /\ last.arg[i] = "a"
                                   /\ last.arg[i - 1] = ">"
                                   /\ last.arg[i + 1] = "<"})

\* C24: when a scan has ended, however it ended, every message it fetched
\* (and so marked read) was classified by it.
C24_FetchedWereClassified ==
    pc = "done" => Len(verdicts) = Len(unread_messages)

\* C25: a scan lists only after connecting, handles messages only with the
\* handler connected and the inbox selected, and no call it makes is refused
\* for the handler being disconnected or the inbox unselected: the only
\* ConnectionError of a scan is the one of a failed connect.
ScanReady ==
    IF kind = "mock" THEN is_connected /\ inbox_selected
    ELSE mail # "None" /\ imapState = "SELECTED" /\ folder = "INBOX"
C25_ScanOrder ==
    /\ pc = "get_unread" => lifecycle = "connected"
    /\ pc = "loop" => lifecycle = "connected" /\ ScanReady
    /\ pc \in {"loop", "finally"} => Range(unread_messages) \subseteq read
    /\ exc \notin {"RuntimeError", "IMAP4.error"}
    /\ pc = "finally" /\ exc = "ConnectionError" => lifecycle = "connect_failed"
C25_Witness ==
    /\ pc = "loop"
    /\ idx = 1
    /\ scannedBefore # {}
    /\ Len(unread_messages) = NumMsgs
    /\ ScanReady

\* C26: disconnect of an IMAP handler that holds a session returns without
\* raising and leaves the session logged out.
C26_DisconnectLogsOut ==
    kind = "imap" /\ last.op = "disconnect" /\ mail # "None" =>
        last.r = "ok" /\ imapState = "LOGOUT"

\* C27: a create_draft over IMAP that returns has appended its draft to the
\* Drafts folder it got selected, and a call that got neither Drafts folder
\* selected does not return normally.
C27_AppendToSelected ==
    kind = "imap" /\ last.op = "create_draft" =>
        /\ last.r = "ok" => drafts[Len(drafts)].target = last.v
        /\ last.v = "" => last.r # "ok"

\* C28: a create_draft over IMAP made with INBOX selected, that returns or
\* fails to create the draft, leaves INBOX selected.
C28_InboxReselected ==
    [][(/\ kind = "imap"
        /\ imapState = "SELECTED"
        /\ folder = "INBOX"
        /\ last'.op = "create_draft"
        /\ (last'.r = "ok" \/ drafts' = drafts)) =>
           imapState' = "SELECTED" /\ folder' = "INBOX"]_vars

\* C29: after a connect of the IMAP handler that raised ConnectionError, and
\* until a connect succeeds, get_inbox, search_unread, fetch_message,
\* mark_as_read, mark_as_unread and create_draft raise ConnectionError.
C29_FailedConnectStaysOut ==
    kind = "imap" /\ lifecycle = "connect_failed" /\ last.op \in HandlerOps =>
        last.r = "ConnectionError"

\* C30: parse_email_message returns for every raw message; a missing
\* subject, sender or message-id gives an empty field, and so does a subject
\* or a body that cannot be decoded.
C30_ParseNeverRaises ==
    last.op = "parse_email_message" =>
        /\ last.r = "ok"
        /\ \A m \in last.v :
               /\ last.arg.subject \in {"absent", "iso-8859-1"} => m.subject = ""
               /\ last.arg.from = "absent" => m.sender = ""
               /\ last.arg.message_id = "absent" => m.message_id = ""
               /\ last.arg.body = "iso-8859-1" => m.body = ""

====
